---- MODULE Spec2Model ----
(***************************************************************************)
(* Model of the CFA fire forecast coordinator: the text extractor          *)
(* (_parse_item), the feed parser (_parse_rss_xml), the two fetch          *)
(* strategies and the fallback controller (_async_update_data).            *)
(*                                                                         *)
(* A description fragment is modelled by the ordered list of matches that  *)
(* RE_RATING.finditer yields on it: a sequence of [name, rating] pairs.     *)
(* The text of a fragment is a sequence of words in which the fixed        *)
(* phrases of the patterns ("a day of", "Total Fire Ban", "in the", a     *)
(* rating) are one word each; a pattern matches whole words.               *)
(* A feed response is a record [kind, items]; kind "ok" carries the        *)
(* sequence of <item> elements of the channel, each a record of its title  *)
(* and description and of whether the two elements are present.            *)
(***************************************************************************)
EXTENDS Integers, Sequences, FiniteSets, TLC

\* ------------------------------------------------------------------------
\* Bounds of the model
\* ------------------------------------------------------------------------
MaxCycle == 13          \* cycles a coordinator runs in a behaviour
MaxItems == 2           \* <item> elements in a feed document (SpecFetch)
MaxPairs == 1           \* rating pairs in a description (SpecFetch)
MaxStatusCycle == 4     \* refresh cycles of the coordinator (SpecStatus)
MaxHostCycle == 3       \* refresh cycles of the coordinator (SpecHost)
MaxLiveCycle == 23      \* refresh cycles of the coordinator (SpecLive)
MaxTextPairs == 2       \* rating pairs in a fragment (SpecParse)
MaxListed == 2          \* districts in a ban declaration (SpecParse)

\* ------------------------------------------------------------------------
\* Program constants
\* ------------------------------------------------------------------------
COMBINED_FAIL_THRESHOLD == 3
COMBINED_RETRY_INTERVAL == 10
DEFAULT_SCAN_INTERVAL == 1800
MIN_SCAN_INTERVAL == 300         \* lower end of the range of the options flow

\* The districts of the model, a subset of const.DISTRICTS
Regions == {"north-central", "central", "mallee"}
\* The districts that config entries register with the coordinator
EntryRegions == {"north-central", "central"}

DISTRICT_FEED_NAMES ==
    [s \in Regions |->
        CASE s = "north-central" -> "North Central"
          [] s = "central"       -> "Central"
          [] s = "mallee"        -> "Mallee"]

RATING_SEVERITY(rating) ==
    CASE rating = "NO RATING"    -> 0
      [] rating = "LOW-MODERATE" -> 1
      [] rating = "MODERATE"     -> 2
      [] rating = "HIGH"         -> 3
      [] rating = "EXTREME"      -> 4
      [] rating = "CATASTROPHIC" -> 5
      [] OTHER                   -> 0     \* RATING_SEVERITY.get(rating, 0)

\* str.upper() on the strings that occur in the modelled feed text
Upper(s) ==
    CASE s = "North Central" -> "NORTH CENTRAL"
      [] s = "Central"       -> "CENTRAL"
      [] s = "central"       -> "CENTRAL"
      [] s = "Mallee"        -> "MALLEE"
      [] s = "North"         -> "NORTH"
      [] s = "north"         -> "NORTH"
      [] s = "district"      -> "DISTRICT"
      [] s = "districts"     -> "DISTRICTS"
      [] s = "district(s)"   -> "DISTRICT(S)"
      [] s = "High"          -> "HIGH"
      [] s = "Low-Moderate"  -> "LOW-MODERATE"
      [] OTHER               -> s

EmptyResult == [s \in {} |-> 0]   \* the dict {}

\* ------------------------------------------------------------------------
\* Text extractor
\* ------------------------------------------------------------------------
\* Variant: takes the first match whatever district it names
FirstDistrictMatch_AnyDistrict(pairs, district_name, i) ==
    IF i > Len(pairs) THEN "UNKNOWN" ELSE Upper(pairs[i].rating)

\* for m in RE_RATING.finditer(text): first match naming the district
RECURSIVE FirstDistrictMatch(_, _, _)
FirstDistrictMatch(pairs, district_name, i) ==
    IF i > Len(pairs) THEN "UNKNOWN"
    ELSE IF Upper(pairs[i].name) = Upper(district_name)
         THEN Upper(pairs[i].rating)
         ELSE FirstDistrictMatch(pairs, district_name, i + 1)

parse_item(desc, district_name) ==
    LET specific == FirstDistrictMatch(desc, district_name, 1)
        rating   == IF specific = "UNKNOWN"
                    THEN (IF Len(desc) > 0 THEN Upper(desc[1].rating)
                                           ELSE "UNKNOWN")
                    ELSE specific
    IN  [rating |-> rating, severity |-> RATING_SEVERITY(rating)]

\* Fire danger ratings in ascending order of severity
FIRE_DANGER_RATINGS ==
    <<"NO RATING", "LOW-MODERATE", "MODERATE", "HIGH", "EXTREME", "CATASTROPHIC">>

\* The values of const.DISTRICT_FEED_NAMES, in the order of the alternation
\* of RE_RATING
FEED_NAME_ORDER ==
    <<"North Central", "South West", "Northern Country", "North East",
      "Central", "Mallee", "Wimmera", "East Gippsland",
      "West and South Gippsland">>

FeedNames == {FEED_NAME_ORDER[i] : i \in 1..Len(FEED_NAME_ORDER)}

\* The words of a district name as it is written in the text
NameWords(name) ==
    CASE name = "North Central"    -> <<"North", "Central">>
      [] name = "north central"    -> <<"north", "central">>
      [] name = "South West"       -> <<"South", "West">>
      [] name = "Northern Country" -> <<"Northern", "Country">>
      [] name = "North East"       -> <<"North", "East">>
      [] name = "East Gippsland"   -> <<"East", "Gippsland">>
      [] name = "West and South Gippsland"
                                   -> <<"West", "and", "South", "Gippsland">>
      [] OTHER                     -> <<name>>

\* re.IGNORECASE match of a phrase at position i of the text
StartsWith(words, i, phrase) ==
    /\ i >= 1
    /\ i + Len(phrase) - 1 <= Len(words)
    /\ \A k \in 1..Len(phrase) : Upper(words[i + k - 1]) = Upper(phrase[k])

\* pattern.search(text) for a pattern that is a fixed phrase
Contains(words, phrase) == \E i \in 1..Len(words) : StartsWith(words, i, phrase)

IsRatingWord(w) ==
    \E k \in 1..Len(FIRE_DANGER_RATINGS) : Upper(w) = FIRE_DANGER_RATINGS[k]

\* RE_RATING at position i: <name>:\s*<rating>, first alternative that fits
RatingMatchAt(words, i) ==
    LET fits(n) == LET nw == NameWords(FEED_NAME_ORDER[n])
                   IN  /\ StartsWith(words, i, nw)
                       /\ i + Len(nw) + 1 <= Len(words)
                       /\ words[i + Len(nw)] = ":"
                       /\ IsRatingWord(words[i + Len(nw) + 1])
        alts == {n \in 1..Len(FEED_NAME_ORDER) : fits(n)}
    IN  IF alts = {} THEN [found |-> FALSE, name |-> "", rating |-> "", len |-> 0]
        ELSE LET n  == CHOOSE a \in alts : \A b \in alts : a <= b
                 nw == NameWords(FEED_NAME_ORDER[n])
             IN  [found |-> TRUE, name |-> FEED_NAME_ORDER[n],
                  rating |-> words[i + Len(nw) + 1], len |-> Len(nw) + 2]

\* RE_RATING.finditer(text): the non-overlapping matches from left to right
RECURSIVE RatingMatches(_, _)
RatingMatches(words, i) ==
    IF i > Len(words) THEN <<>>
    ELSE LET m == RatingMatchAt(words, i)
         IN  IF m.found
             THEN <<[name |-> m.name, rating |-> m.rating]>>
                      \o RatingMatches(words, i + m.len)
             ELSE RatingMatches(words, i + 1)

RE_TFB_NO(words) ==
    Contains(words, <<"is", "not", "currently", "a day of", "Total Fire Ban">>)

RE_TFB_DECLARED(words) ==
    Contains(words, <<"declared", "a day of", "Total Fire Ban">>)

RE_TFB_IS(words) ==
    \/ Contains(words, <<"is", "a day of", "Total Fire Ban">>)
    \/ Contains(words, <<"is", "currently", "a day of", "Total Fire Ban">>)

RE_TFB_STATEWIDE(words) ==
    \/ Contains(words, <<"whole State of Victoria">>)
    \/ Contains(words, <<"statewide">>)

\* district\(?s?\)?
IsDistrictWord(w) == Upper(w) \in {"DISTRICT", "DISTRICTS", "DISTRICT(S)"}

\* RE_TFB_DISTRICT_LIST.search(text): [found, list]; list is group(1), the
\* words after the leftmost "Total Fire Ban in the / for the" up to the
\* first district word or, without one, up to the end of the text. The
\* pattern asks for white space after "the": a word follows in the text.
RE_TFB_DISTRICT_LIST(words) ==
    LET starts == {i \in 1..(Len(words) - 2) :
                      \/ StartsWith(words, i, <<"Total Fire Ban", "in the">>)
                      \/ StartsWith(words, i, <<"Total Fire Ban", "for the">>)}
    IN  IF starts = {} THEN [found |-> FALSE, list |-> <<>>]
        ELSE LET i    == CHOOSE a \in starts : \A b \in starts : a <= b
                 ends == {j \in (i + 2)..Len(words) : IsDistrictWord(words[j])}
                 to   == IF ends = {} THEN Len(words)
                         ELSE (CHOOSE a \in ends : \A b \in ends : a <= b) - 1
             IN  [found |-> TRUE, list |-> SubSeq(words, i + 2, to)]

\* Variant: no lookbehind for "Central"
district_tfb_search_NoLookbehind(list, district_name) ==
    \E j \in 1..Len(list) : StartsWith(list, j, NameWords(district_name))

\* _build_district_tfb_pattern(district_name).search(district_list_text)
district_tfb_search(list, district_name) ==
    \E j \in 1..Len(list) :
        /\ StartsWith(list, j, NameWords(district_name))
        /\ district_name = "Central" =>
              ~(j > 1 /\ Upper(list[j - 1]) = Upper("North"))

\* Variant: tests the statewide wording before the negative wording
total_fire_ban_StatewideFirst(words, district_name) ==
    IF RE_TFB_STATEWIDE(words) THEN TRUE
    ELSE IF RE_TFB_NO(words) THEN FALSE
    ELSE IF RE_TFB_DECLARED(words) \/ RE_TFB_IS(words)
        THEN LET m == RE_TFB_DISTRICT_LIST(words)
             IN  IF m.found THEN district_tfb_search(m.list, district_name)
                 ELSE TRUE
    ELSE FALSE

\* Total Fire Ban status (district-aware)
total_fire_ban(words, district_name) ==
    IF RE_TFB_NO(words) THEN FALSE
    ELSE IF RE_TFB_STATEWIDE(words) THEN TRUE
    ELSE IF RE_TFB_DECLARED(words) \/ RE_TFB_IS(words)
        THEN LET m == RE_TFB_DISTRICT_LIST(words)
             IN  IF m.found THEN district_tfb_search(m.list, district_name)
                 ELSE TRUE
    ELSE FALSE

\* _parse_item on the text of a fragment
parse_text(words, district_name) ==
    LET parsed == parse_item(RatingMatches(words, 1), district_name)
    IN  [rating |-> parsed.rating, severity |-> parsed.severity,
         total_fire_ban |-> total_fire_ban(words, district_name)]

\* ------------------------------------------------------------------------
\* Feed parser
\* ------------------------------------------------------------------------
\* re.match(r"(Monday|...|Sunday|Today|Tomorrow)", title_text, IGNORECASE)
IsForecastTitle(title) ==
    title \in {"Today", "Tomorrow", "Monday", "Tuesday", "Wednesday",
               "Thursday", "Friday", "Saturday", "Sunday"}

\* Variant: keeps the items whose title is not a forecast day
RECURSIVE ForecastItems_NoTitleFilter(_)
ForecastItems_NoTitleFilter(items) ==
    IF items = <<>> THEN <<>>
    ELSE LET item == Head(items)
             rest == ForecastItems_NoTitleFilter(Tail(items))
         IN  IF ~item.has_title \/ ~item.has_desc
                THEN rest
             ELSE <<[title |-> item.title, desc |-> item.desc]>> \o rest

RECURSIVE ForecastItems(_)
ForecastItems(items) ==
    IF items = <<>> THEN <<>>
    ELSE LET item == Head(items)
             rest == ForecastItems(Tail(items))
         IN  IF ~item.has_title \/ ~item.has_desc
                THEN rest
             ELSE IF ~IsForecastTitle(item.title)
                THEN rest
             ELSE <<[title |-> item.title, desc |-> item.desc]>> \o rest

\* [ok, forecast_items]; not ok stands for ParseError / ValueError
parse_rss_xml(resp) ==
    IF resp.kind \in {"bad_xml", "no_channel"}
    THEN [ok |-> FALSE, forecast_items |-> <<>>]
    ELSE [ok |-> TRUE, forecast_items |-> ForecastItems(resp.items)]

\* ------------------------------------------------------------------------
\* Fetch strategies
\* ------------------------------------------------------------------------
ForecastDay(entry, feed_name) ==
    LET parsed == parse_item(entry.desc, feed_name)
    IN  [rating |-> parsed.rating, severity |-> parsed.severity,
         date_label |-> entry.title]

Forecasts(forecast_items, feed_name) ==
    [i \in 1..Len(forecast_items) |-> ForecastDay(forecast_items[i], feed_name)]

AllUnknown(result) ==
    \A s \in DOMAIN result :
        result[s].forecasts # <<>> =>
            \A i \in 1..Len(result[s].forecasts) :
                result[s].forecasts[i].rating = "UNKNOWN"

\* [ok, error, result]: ok = FALSE stands for the exception raised
fetch_combined_feed(resp, district_slugs) ==
    LET parsed == parse_rss_xml(resp)
        result == [s \in district_slugs |->
                     [district_slug |-> s,
                      forecasts |-> Forecasts(parsed.forecast_items,
                                              DISTRICT_FEED_NAMES[s])]]
        Fail(msg) == [ok |-> FALSE, error |-> msg, result |-> EmptyResult]
    IN  IF resp.kind = "client_error" THEN Fail("client error")
        ELSE IF resp.kind = "http_error"
            THEN Fail("Combined feed returned HTTP error")
        ELSE IF ~parsed.ok THEN Fail("Error parsing combined feed XML")
        ELSE IF parsed.forecast_items = <<>>
            THEN Fail("Combined feed returned no forecast items")
        ELSE IF AllUnknown(result) /\ district_slugs # {}
            THEN Fail("Combined feed returned data but all ratings are UNKNOWN")
        ELSE [ok |-> TRUE, error |-> "", result |-> result]

fetch_individual_feed(resp, district_slug) ==
    LET parsed == parse_rss_xml(resp)
    IN  IF resp.kind \in {"client_error", "http_error"} \/ ~parsed.ok
        THEN [ok |-> FALSE, value |-> EmptyResult]
        ELSE [ok |-> TRUE,
              value |-> [district_slug |-> district_slug,
                         forecasts |-> Forecasts(parsed.forecast_items,
                                         DISTRICT_FEED_NAMES[district_slug])]]

\* Variant: raises as soon as one district failed
fetch_individual_feeds_AnyError(resps) ==
    LET slugs   == DOMAIN resps
        res_raw == [s \in slugs |-> fetch_individual_feed(resps[s], s)]
        errors  == {s \in slugs : ~res_raw[s].ok}
        good    == {s \in slugs : res_raw[s].ok}
        result  == [s \in good |-> res_raw[s].value]
    IN  IF errors # {}
        THEN [ok |-> FALSE, result |-> EmptyResult, errors |-> errors]
        ELSE [ok |-> TRUE, result |-> result, errors |-> errors]

\* resps: the response each task of the gather receives
\* [ok, result, errors]: ok = FALSE stands for UpdateFailed
fetch_individual_feeds(resps) ==
    LET slugs   == DOMAIN resps
        res_raw == [s \in slugs |-> fetch_individual_feed(resps[s], s)]
        errors  == {s \in slugs : ~res_raw[s].ok}
        good    == {s \in slugs : res_raw[s].ok}
        result  == [s \in good |-> res_raw[s].value]
    IN  IF good = {}
        THEN [ok |-> FALSE, result |-> EmptyResult, errors |-> errors]
        ELSE [ok |-> TRUE, result |-> result, errors |-> errors]

\* ------------------------------------------------------------------------
\* Feed responses used as inputs
\* ------------------------------------------------------------------------
FailureKinds == {"client_error", "http_error", "bad_xml", "no_channel"}
Failure(kind) == [kind |-> kind, items |-> <<>>]
Document(items) == [kind |-> "ok", items |-> items]
Pair(name, rating) == [name |-> name, rating |-> rating]
Item(title, desc) ==
    [has_title |-> TRUE, title |-> title, has_desc |-> TRUE, desc |-> desc]
\* <item> elements without a <title> or without a <description>
NoTitleItem(desc) == [Item("", desc) EXCEPT !.has_title = FALSE]
NoDescItem(title) == [Item(title, <<>>) EXCEPT !.has_desc = FALSE]

\* The combined feed as published: every district rated in every item
FullDesc == <<Pair("North Central", "HIGH"), Pair("Central", "Low-Moderate"),
              Pair("Mallee", "MODERATE")>>

\* Responses of the combined endpoint in the controller specification
MainCombinedResponses ==
    { Failure("client_error"),
      Document(<<>>),
      Document(<<Item("Today", FullDesc)>>),
      Document(<<Item("Today", <<>>)>>) }

\* Responses of the per-district endpoint in the controller specification
MainIndividualResponses(slug) ==
    { Failure("http_error"),
      Document(<<Item("Today", <<Pair(DISTRICT_FEED_NAMES[slug], "HIGH")>>)>>) }

\* ------------------------------------------------------------------------
\* Coordinator state
\* ------------------------------------------------------------------------
VARIABLES
    district_slugs,        \* self._district_slugs
    combined_fail_count,   \* self._combined_fail_count
    cycle_count,           \* self._cycle_count
    last_source,           \* self._last_source
    last_error,            \* self._last_error
    failed_districts,      \* self._failed_districts (as a set)
    fallback_active,       \* self._fallback_active
    data,                  \* coordinator.data: [set, map]; set = FALSE is None
    pc,                    \* where the refresh coroutine is suspended
    try_combined,          \* local of _async_update_data
    tasks,                 \* keys of the tasks dict of _fetch_individual_feeds
    obs,                   \* what the current / last cycle did
    entered_at,            \* cycle that logged "entering sustained fallback
                           \* mode", 0 when the combined feed is not failing
    call,                  \* a direct call of a fetch strategy (SpecFetch)
    host                   \* hass.data[DOMAIN], the config entries and the
                           \* tasks of the event loop (SpecHost)

vars == <<district_slugs, combined_fail_count, cycle_count, last_source,
          last_error, failed_districts, fallback_active, data, pc,
          try_combined, tasks, obs, entered_at, call, host>>

ctrl == <<district_slugs, combined_fail_count, cycle_count, last_source,
          last_error, failed_districts, fallback_active, data, pc,
          try_combined, tasks, obs, entered_at, host>>

NoError == [kind |-> "none", slugs |-> {}]
ErrorMsg(kind, slugs) == [kind |-> kind, slugs |-> slugs]

\* The controller state and the cache as a cycle finds them; kept while the
\* cycle is in flight and after a cancellation
NoBefore == [cycle_count |-> 0, combined_fail_count |-> 0,
             fallback_active |-> FALSE, last_source |-> "none",
             last_error |-> NoError, failed_districts |-> {},
             data |-> [set |-> FALSE, map |-> EmptyResult]]

NoObs == [outcome |-> "none", tracked |-> FALSE, start_fail |-> 0,
          attempted |-> FALSE, combined |-> "none",
          individual |-> "none", ind_failed |-> {}, before |-> NoBefore]

NoBan == [phrase |-> "none", prep |-> "none", listed |-> <<>>, term |-> ""]

NoCall == [fn |-> "none", slugs |-> {}, resp |-> Failure("client_error"),
           resps |-> EmptyResult,
           rc |-> [ok |-> FALSE, error |-> "", result |-> EmptyResult],
           ri |-> [ok |-> FALSE, result |-> EmptyResult, errors |-> {}],
           frag |-> [ban |-> NoBan, pairs |-> <<>>], words |-> <<>>,
           district_name |-> "",
           ret |-> [rating |-> "", severity |-> 0, total_fire_ban |-> FALSE]]

\* The config entries, each for one district
EntryIds == {"e1", "e2"}
EntryDistrict(e) == IF e = "e1" THEN "central" ELSE "north-central"

\* The tasks of the event loop that run a refresh: the timer of the
\* coordinator and the setup of each config entry
Tasks == {"timer"} \cup EntryIds

\* The locals of a task that is not running a cycle
IdleFrame == [pc |-> "idle", try_combined |-> TRUE, tasks |-> {}, obs |-> NoObs]

\* No coordinator in hass.data and no entry set up. pc, try_combined, tasks
\* and obs are the locals of the task host.focus; host.frames holds the
\* locals of the other tasks.
NoHost == [coordinator |-> FALSE, update_interval |-> 0,
           entries |-> [e \in EntryIds |-> [setup |-> FALSE, interval |-> 0]],
           focus |-> "timer", frames |-> [t \in Tasks |-> IdleFrame]]

\* CfaFireForecastCoordinator.__init__
InitCoordinator ==
    /\ district_slugs = {}
    /\ combined_fail_count = 0
    /\ cycle_count = 0
    /\ last_source = "none"
    /\ last_error = NoError
    /\ failed_districts = {}
    /\ fallback_active = FALSE
    /\ data = [set |-> FALSE, map |-> EmptyResult]
    /\ pc = "idle"
    /\ try_combined = TRUE
    /\ tasks = {}
    /\ obs = NoObs
    /\ entered_at = 0

Init ==
    /\ InitCoordinator
    /\ call = NoCall
    /\ host = NoHost

\* ------------------------------------------------------------------------
\* District tracking
\* ------------------------------------------------------------------------
add_district(slug) ==
    /\ district_slugs' = district_slugs \cup {slug}
    /\ UNCHANGED <<combined_fail_count, cycle_count, last_source, last_error,
                   failed_districts, fallback_active, data, pc, try_combined,
                   tasks, obs, entered_at, call, host>>

remove_district(slug) ==
    /\ district_slugs' = district_slugs \ {slug}
    /\ UNCHANGED <<combined_fail_count, cycle_count, last_source, last_error,
                   failed_districts, fallback_active, data, pc, try_combined,
                   tasks, obs, entered_at, call, host>>

\* ------------------------------------------------------------------------
\* _async_update_data, one action per stretch between suspension points
\* ------------------------------------------------------------------------
\* Variant: merges the returned snapshots into the cached ones
CacheResult_Merge(result) ==
    data' = [set |-> TRUE,
             map |-> [s \in DOMAIN data.map \cup DOMAIN result |->
                        IF s \in DOMAIN result THEN result[s]
                                               ELSE data.map[s]]]

\* The returned dict becomes coordinator.data
CacheResult(result) == data' = [set |-> TRUE, map |-> result]

\* CfaBaseSensor._get_district_data; present = FALSE is None
get_district_data(slug) ==
    IF ~data.set \/ slug \notin DOMAIN data.map
    THEN [present |-> FALSE, forecasts |-> <<>>]
    ELSE [present |-> TRUE, forecasts |-> data.map[slug].forecasts]

\* CfaFeedStatusSensor.native_value of the sensor of a district
native_value(slug) ==
    LET district_data == get_district_data(slug)
    IN  IF ~district_data.present \/ district_data.forecasts = <<>>
            THEN "failed"
        ELSE IF slug \in failed_districts THEN "failed"
        ELSE IF \/ fallback_active
                \/ last_source = "individual"
                \/ failed_districts # {}
            THEN "degraded"
        ELSE "ok"

\* Variant: runs a cycle although no district is tracked
RefreshNoDistricts_RunsCycle ==
    /\ pc = "idle"
    /\ district_slugs = {}
    /\ cycle_count < MaxCycle
    /\ cycle_count' = cycle_count + 1
    /\ pc' = "await_combined"
    /\ obs' = [NoObs EXCEPT !.outcome = "running", !.attempted = TRUE,
                            !.start_fail = combined_fail_count]
    /\ UNCHANGED <<district_slugs, combined_fail_count, last_source,
                   last_error, failed_districts, fallback_active, data,
                   try_combined, tasks, entered_at, call, host>>

\* if not self._district_slugs: return {}
RefreshNoDistricts ==
    /\ pc = "idle"
    /\ district_slugs = {}
    /\ CacheResult(EmptyResult)
    /\ obs' = [NoObs EXCEPT !.outcome = "returned",
                            !.start_fail = combined_fail_count]
    /\ UNCHANGED <<district_slugs, combined_fail_count, cycle_count,
                   last_source, last_error, failed_districts, fallback_active,
                   pc, try_combined, tasks, entered_at, call, host>>

\* Variant: probes on the cycles congruent to the threshold
SkipCombined_Shifted(fail_count, cycle) ==
    /\ fail_count >= COMBINED_FAIL_THRESHOLD
    /\ cycle % COMBINED_RETRY_INTERVAL # COMBINED_FAIL_THRESHOLD

\* Variant: never retries the combined feed once in fallback
SkipCombined_NoRetry(fail_count, cycle) ==
    fail_count >= COMBINED_FAIL_THRESHOLD

\* Variant: needs one failure more before it skips
SkipCombined_Late(fail_count, cycle) ==
    /\ fail_count > COMBINED_FAIL_THRESHOLD
    /\ cycle % COMBINED_RETRY_INTERVAL # 0

\* Decide whether to attempt the combined feed this cycle
SkipCombined(fail_count, cycle) ==
    /\ fail_count >= COMBINED_FAIL_THRESHOLD
    /\ cycle % COMBINED_RETRY_INTERVAL # 0

FallbackFlag(fail_count) == fail_count >= COMBINED_FAIL_THRESHOLD

ControllerState ==
    [cycle_count |-> cycle_count, combined_fail_count |-> combined_fail_count,
     fallback_active |-> fallback_active, last_source |-> last_source,
     last_error |-> last_error, failed_districts |-> failed_districts,
     data |-> data]

\* The cycle from "self._cycle_count += 1" to its first await; slugs is
\* self._district_slugs
CycleStart(slugs) ==
    /\ cycle_count' = cycle_count + 1
    /\ fallback_active' = FallbackFlag(combined_fail_count)
    /\ try_combined' = ~SkipCombined(combined_fail_count, cycle_count')
    /\ pc' = IF try_combined' THEN "await_combined" ELSE "await_individual"
    /\ tasks' = IF try_combined' THEN {} ELSE slugs
    /\ obs' = [NoObs EXCEPT !.outcome = "running",
                            !.tracked = TRUE,
                            !.start_fail = combined_fail_count,
                            !.attempted = try_combined',
                            !.individual = IF try_combined' THEN "none"
                                                            ELSE "running",
                            !.before = ControllerState]
    /\ UNCHANGED <<combined_fail_count, last_source, last_error,
                   failed_districts, data, entered_at, call>>

BeginCycleUpTo(max_cycle) ==
    /\ pc = "idle"
    /\ district_slugs # {}
    /\ cycle_count < max_cycle
    /\ CycleStart(district_slugs)
    /\ UNCHANGED <<district_slugs, host>>

BeginCycle == BeginCycleUpTo(MaxCycle)

\* Variant: leaves the fallback flag as the top of the cycle set it
ResetFailureState_KeepFlag ==
    /\ combined_fail_count' = 0
    /\ fallback_active' = fallback_active
    /\ last_source' = "combined"
    /\ last_error' = NoError
    /\ failed_districts' = {}

\* Success - reset failure state
ResetFailureState ==
    /\ combined_fail_count' = 0
    /\ fallback_active' = FALSE
    /\ last_source' = "combined"
    /\ last_error' = NoError
    /\ failed_districts' = {}

\* The combined fetch returned: reset failure state, return result
CombinedSucceeded(resp) ==
    /\ pc = "await_combined"
    /\ LET r == fetch_combined_feed(resp, district_slugs)
       IN  /\ r.ok
           /\ ResetFailureState
           /\ CacheResult(r.result)
           /\ obs' = [obs EXCEPT !.outcome = "returned", !.combined = "ok",
                                 !.before = NoBefore]
    /\ entered_at' = 0
    /\ pc' = "idle"
    /\ UNCHANGED <<district_slugs, cycle_count, try_combined, tasks, call, host>>

\* The combined fetch raised: count the failure, start the individual fetch
CombinedFailed(resp) ==
    /\ pc = "await_combined"
    /\ LET r == fetch_combined_feed(resp, district_slugs)
       IN  /\ ~r.ok
           /\ combined_fail_count' = combined_fail_count + 1
           /\ obs' = [obs EXCEPT !.combined = "failed",
                                 !.individual = "running"]
    /\ entered_at' = IF combined_fail_count' = COMBINED_FAIL_THRESHOLD
                      THEN cycle_count ELSE entered_at
    /\ tasks' = district_slugs
    /\ pc' = "await_individual"
    /\ UNCHANGED <<district_slugs, cycle_count, last_source, last_error,
                   failed_districts, fallback_active, data, try_combined, call, host>>

FailedInputs(resps) == {s \in DOMAIN resps : resps[s].kind # "ok"}

\* Variant: keeps the previous error when no district failed
RecordIndividual_StaleError(failed_slugs) ==
    /\ last_source' = "individual"
    /\ failed_districts' = failed_slugs
    /\ last_error' = IF failed_slugs # {}
                     THEN ErrorMsg("Individual feeds failed for", failed_slugs)
                     ELSE last_error

RecordIndividual(failed_slugs) ==
    /\ last_source' = "individual"
    /\ failed_districts' = failed_slugs
    /\ last_error' = IF failed_slugs # {}
                     THEN ErrorMsg("Individual feeds failed for", failed_slugs)
                     ELSE NoError

\* Variant: reports the districts of the error message only
RecordTotalFailure_ErrorsOnly(errors) ==
    /\ last_error' = ErrorMsg("All individual district feeds failed", errors)
    /\ failed_districts' = errors

RecordTotalFailure(errors) ==
    /\ last_error' = ErrorMsg("All individual district feeds failed", errors)
    /\ failed_districts' = district_slugs

\* The gather of the individual fetches returned at least one snapshot
IndividualSucceeded(resps) ==
    /\ pc = "await_individual"
    /\ LET r == fetch_individual_feeds(resps)
       IN  /\ r.ok
           /\ RecordIndividual(r.errors)
           /\ CacheResult(r.result)
           /\ obs' = [obs EXCEPT !.outcome = "returned", !.individual = "ok",
                                 !.ind_failed = FailedInputs(resps),
                                 !.before = NoBefore]
    /\ pc' = "idle"
    /\ UNCHANGED <<district_slugs, combined_fail_count, cycle_count,
                   fallback_active, try_combined, tasks, entered_at, call, host>>

\* Variant: a failed cycle empties the cache
IndividualFailed_ClearsCache(resps) ==
    /\ pc = "await_individual"
    /\ LET r == fetch_individual_feeds(resps)
       IN  /\ ~r.ok
           /\ RecordTotalFailure(r.errors)
           /\ obs' = [obs EXCEPT !.outcome = "raised", !.individual = "raised",
                                 !.ind_failed = FailedInputs(resps),
                                 !.before = NoBefore]
    /\ data' = [set |-> TRUE, map |-> EmptyResult]
    /\ pc' = "idle"
    /\ UNCHANGED <<district_slugs, combined_fail_count, cycle_count,
                   last_source, fallback_active, try_combined, tasks,
                   entered_at, call, host>>

\* Every individual fetch failed: record the error and raise UpdateFailed.
\* The gather collects every exception of a task, so _fetch_individual_feeds
\* raises UpdateFailed only and the "except Exception" branch is not taken.
IndividualFailed(resps) ==
    /\ pc = "await_individual"
    /\ LET r == fetch_individual_feeds(resps)
       IN  /\ ~r.ok
           /\ RecordTotalFailure(r.errors)
           /\ obs' = [obs EXCEPT !.outcome = "raised", !.individual = "raised",
                                 !.ind_failed = FailedInputs(resps),
                                 !.before = NoBefore]
    /\ pc' = "idle"
    /\ UNCHANGED <<district_slugs, combined_fail_count, cycle_count,
                   last_source, fallback_active, data, try_combined, tasks,
                   entered_at, call, host>>

\* The task of the cycle is cancelled while it awaits a fetch: CancelledError
\* is raised at the await; it is not an Exception, so no handler of the
\* cycle runs
Cancel ==
    /\ pc \in {"await_combined", "await_individual"}
    /\ pc' = "idle"
    /\ obs' = [obs EXCEPT !.outcome = "cancelled"]
    /\ UNCHANGED <<district_slugs, combined_fail_count, cycle_count,
                   last_source, last_error, failed_districts, fallback_active,
                   data, try_combined, tasks, entered_at, call, host>>

IndividualInputs == 
    { f \in [tasks -> UNION {MainIndividualResponses(s) : s \in EntryRegions}] :
        \A s \in tasks : f[s] \in MainIndividualResponses(s) }

Next ==
    \/ \E slug \in EntryRegions : add_district(slug)
    \/ \E slug \in EntryRegions : remove_district(slug)
    \/ RefreshNoDistricts
    \/ BeginCycle
    \/ \E resp \in MainCombinedResponses : CombinedSucceeded(resp)
    \/ \E resp \in MainCombinedResponses : CombinedFailed(resp)
    \/ \E resps \in IndividualInputs : IndividualSucceeded(resps)
    \/ \E resps \in IndividualInputs : IndividualFailed(resps)

\* Every cycle runs to its end
Spec == Init /\ [][Next]_vars

\* A cycle may be cancelled while it awaits
NextCancel == Next \/ Cancel

SpecCancel == Init /\ [][NextCancel]_vars

\* ------------------------------------------------------------------------
\* The coordinator polled for ever: districts are only added, the timer
\* starts a cycle whenever none is running, every request ends (the fetches
\* carry a timeout), and the combined feed fails only in the cycles up to
\* LiveFailUntil
\* ------------------------------------------------------------------------
LiveFailUntil == MaxLiveCycle - COMBINED_RETRY_INTERVAL

LiveCombinedResponses ==
    {Failure("client_error"), Document(<<Item("Today", FullDesc)>>)}

LiveBeginCycle == BeginCycleUpTo(MaxLiveCycle)

LiveCombined ==
    \E resp \in LiveCombinedResponses :
        \/ CombinedSucceeded(resp)
        \/ cycle_count <= LiveFailUntil /\ CombinedFailed(resp)

LiveIndividual ==
    \E resps \in IndividualInputs :
        IndividualSucceeded(resps) \/ IndividualFailed(resps)

NextLive ==
    \/ \E slug \in EntryRegions : add_district(slug)
    \/ LiveBeginCycle
    \/ LiveCombined
    \/ LiveIndividual

SpecLive ==
    /\ Init
    /\ [][NextLive]_vars
    /\ WF_vars(LiveBeginCycle)
    /\ WF_vars(LiveCombined)
    /\ WF_vars(LiveIndividual)

\* ------------------------------------------------------------------------
\* The config entries that share the coordinator
\* ------------------------------------------------------------------------
ScanIntervals == {MIN_SCAN_INTERVAL, DEFAULT_SCAN_INTERVAL}

Frame(t) ==
    IF t = host.focus
        THEN [pc |-> pc, try_combined |-> try_combined, tasks |-> tasks,
              obs |-> obs]
    ELSE host.frames[t]

\* The task is suspended in _async_update_data
InCycle(t) == Frame(t).pc \in {"await_combined", "await_individual"}

\* async_setup_entry of the entry is past its first refresh: the entry is
\* stored in hass.data
Loaded(e) ==
    /\ host.entries[e].setup
    /\ Frame(e).pc = "idle"
    /\ Frame(e).obs.outcome = "returned"

\* The first refresh raised: ConfigEntryNotReady leaves async_setup_entry
NotReady(e) ==
    /\ host.entries[e].setup
    /\ Frame(e).pc = "idle"
    /\ Frame(e).obs.outcome = "raised"

\* The host with the task t in focus
Focused(t) ==
    IF t = host.focus THEN host
    ELSE [host EXCEPT !.focus = t,
                      !.frames[host.focus] = Frame(host.focus),
                      !.frames[t] = IdleFrame]

\* While a task is suspended in a cycle the event loop runs another task
Switch(t) ==
    /\ t # host.focus
    /\ InCycle(host.focus) \/ InCycle(t)
    /\ pc' = host.frames[t].pc
    /\ try_combined' = host.frames[t].try_combined
    /\ tasks' = host.frames[t].tasks
    /\ obs' = host.frames[t].obs
    /\ host' = Focused(t)
    /\ UNCHANGED <<district_slugs, combined_fail_count, cycle_count,
                   last_source, last_error, failed_districts, fallback_active,
                   data, entered_at, call>>

\* async_setup_entry up to the first await of the first refresh
async_setup_entry_UpTo(e, scan_interval, max_cycle) ==
    /\ pc = "idle"
    /\ ~host.entries[e].setup \/ NotReady(e)
    /\ cycle_count < max_cycle
    /\ district_slugs' = district_slugs \cup {EntryDistrict(e)}
    /\ CycleStart(district_slugs')
    /\ host' = [Focused(e) EXCEPT
                   !.coordinator = TRUE,
                   !.update_interval =
                       IF ~host.coordinator THEN scan_interval
                       ELSE IF scan_interval < @ THEN scan_interval ELSE @,
                   !.entries[e] = [setup |-> TRUE, interval |-> scan_interval]]

async_setup_entry(e, scan_interval) ==
    async_setup_entry_UpTo(e, scan_interval, MaxHostCycle)

\* async_unload_entry of an entry that leaves a district tracked
UnloadKeepsCoordinator(e) ==
    /\ Loaded(e)
    /\ district_slugs \ {EntryDistrict(e)} # {}
    /\ district_slugs' = district_slugs \ {EntryDistrict(e)}
    /\ IF host.focus = e
           THEN /\ pc' = IdleFrame.pc
                /\ try_combined' = IdleFrame.try_combined
                /\ tasks' = IdleFrame.tasks
                /\ obs' = IdleFrame.obs
           ELSE UNCHANGED <<pc, try_combined, tasks, obs>>
    /\ host' = [host EXCEPT !.entries[e] = NoHost.entries[e],
                            !.frames[e] = IdleFrame]
    /\ UNCHANGED <<combined_fail_count, cycle_count, last_source, last_error,
                   failed_districts, fallback_active, data, entered_at, call>>

\* async_unload_entry of the entry with the last tracked district: the
\* coordinator is removed from hass.data, the next setup creates a new one
UnloadRemovesCoordinator(e) ==
    /\ Loaded(e)
    /\ district_slugs \ {EntryDistrict(e)} = {}
    /\ district_slugs' = {}
    /\ combined_fail_count' = 0
    /\ cycle_count' = 0
    /\ last_source' = "none"
    /\ last_error' = NoError
    /\ failed_districts' = {}
    /\ fallback_active' = FALSE
    /\ data' = [set |-> FALSE, map |-> EmptyResult]
    /\ pc' = IdleFrame.pc
    /\ try_combined' = IdleFrame.try_combined
    /\ tasks' = IdleFrame.tasks
    /\ obs' = IdleFrame.obs
    /\ entered_at' = 0
    /\ host' = [NoHost EXCEPT !.focus = host.focus]
    /\ UNCHANGED call

async_unload_entry(e) == UnloadKeepsCoordinator(e) \/ UnloadRemovesCoordinator(e)

\* The timer of the coordinator fires; it runs once an entity listens
TimerRefreshUpTo(max_cycle) ==
    /\ host.coordinator
    /\ \E e \in EntryIds : Loaded(e)
    /\ pc = "idle"
    /\ ~InCycle("timer")
    /\ district_slugs # {}
    /\ cycle_count < max_cycle
    /\ CycleStart(district_slugs)
    /\ host' = Focused("timer")
    /\ UNCHANGED district_slugs

TimerRefresh == TimerRefreshUpTo(MaxHostCycle)

HostCombinedResponses ==
    {Failure("client_error"), Document(<<Item("Today", FullDesc)>>)}

\* Responses of the per-district endpoint: an error, a document with a
\* forecast and a document without items
HostIndividualResponses(slug) ==
    MainIndividualResponses(slug) \cup {Document(<<>>)}

HostIndividualInputs ==
    { f \in [tasks -> UNION {HostIndividualResponses(s) : s \in EntryRegions}] :
        \A s \in tasks : f[s] \in HostIndividualResponses(s) }

NextHost ==
    \/ \E t \in Tasks : Switch(t)
    \/ \E e \in EntryIds, i \in ScanIntervals : async_setup_entry(e, i)
    \/ \E e \in EntryIds : async_unload_entry(e)
    \/ TimerRefresh
    \/ \E resp \in HostCombinedResponses : CombinedSucceeded(resp)
    \/ \E resp \in HostCombinedResponses : CombinedFailed(resp)
    \/ \E resps \in IndividualInputs : IndividualSucceeded(resps)
    \/ \E resps \in IndividualInputs : IndividualFailed(resps)

SpecHost == Init /\ [][NextHost]_vars

\* The host running the refreshes one after another, with per-district
\* feeds that may hold no forecast item, long enough for the fallback
\* mode to begin
NextStatus ==
    \/ \E e \in EntryIds :
           async_setup_entry_UpTo(e, DEFAULT_SCAN_INTERVAL, MaxStatusCycle)
    \/ \E e \in EntryIds : async_unload_entry(e)
    \/ TimerRefreshUpTo(MaxStatusCycle)
    \/ \E resp \in HostCombinedResponses : CombinedSucceeded(resp)
    \/ \E resp \in HostCombinedResponses : CombinedFailed(resp)
    \/ \E resps \in HostIndividualInputs : IndividualSucceeded(resps)
    \/ \E resps \in HostIndividualInputs : IndividualFailed(resps)

SpecStatus == Init /\ [][NextStatus]_vars

\* ------------------------------------------------------------------------
\* The fetch strategies called directly on bounded inputs
\* ------------------------------------------------------------------------
SeqsUpTo(S, n) == UNION {[1..k -> S] : k \in 0..n}

FetchPairs == {Pair(n, "HIGH") : n \in {"North Central", "Central", "Mallee"}}
FetchDescs == SeqsUpTo(FetchPairs, MaxPairs)
FetchTitles == {"Today", "Tomorrow", "Fire restrictions by municipality"}
FetchItems ==
    {Item(t, d) : t \in FetchTitles, d \in FetchDescs}
        \cup {NoTitleItem(FullDesc), NoDescItem("Today")}
FetchResponses ==
    {Failure(k) : k \in FailureKinds}
        \cup {Document(items) : items \in SeqsUpTo(FetchItems, MaxItems)}

FetchIndividualResponses ==
    {Failure(k) : k \in FailureKinds}
        \cup {Document(<<>>),
              Document(<<Item("Today", <<Pair("Central", "HIGH")>>)>>)}

CombinedCalls ==
    {[NoCall EXCEPT !.fn = "pending_combined", !.slugs = slugs, !.resp = resp] :
        slugs \in SUBSET Regions, resp \in FetchResponses}

IndividualCalls ==
    {[NoCall EXCEPT !.fn = "pending_individual", !.slugs = slugs,
                    !.resps = resps] :
        slugs \in SUBSET Regions \ {{}},
        resps \in UNION {[sl -> FetchIndividualResponses] :
                            sl \in SUBSET Regions \ {{}}}}

InitFetch ==
    /\ InitCoordinator
    /\ host = NoHost
    /\ call \in CombinedCalls \cup
                {c \in IndividualCalls : DOMAIN c.resps = c.slugs}

CallCombined ==
    /\ call.fn = "pending_combined"
    /\ call' = [call EXCEPT !.fn = "combined",
                            !.rc = fetch_combined_feed(call.resp, call.slugs)]
    /\ UNCHANGED ctrl

CallIndividual ==
    /\ call.fn = "pending_individual"
    /\ call' = [call EXCEPT !.fn = "individual",
                            !.ri = fetch_individual_feeds(call.resps)]
    /\ UNCHANGED ctrl

NextFetch == CallCombined \/ CallIndividual

SpecFetch == InitFetch /\ [][NextFetch]_vars

\* ------------------------------------------------------------------------
\* The text extractor called directly on bounded fragments
\* ------------------------------------------------------------------------
\* A fragment is a ban sentence followed by rating pairs; a ban sentence is
\* [phrase, prep, listed, term]: the wording, the preposition that opens
\* the district list ("none": no list), the districts listed and the word
\* that closes the list.
RECURSIVE JoinNames(_)
JoinNames(listed) ==
    IF listed = <<>> THEN <<>>
    ELSE IF Len(listed) = 1 THEN NameWords(listed[1])
    ELSE NameWords(listed[1]) \o <<"and">> \o JoinNames(Tail(listed))

BanWords(ban) ==
    LET list == IF ban.prep = "none" THEN <<>>
                ELSE <<ban.prep>> \o JoinNames(ban.listed)
                         \o (IF ban.term = "" THEN <<>> ELSE <<ban.term>>)
        no == <<"Today", "is", "not", "currently", "a day of", "Total Fire Ban">>
        statewide ==
              <<"Today", "has been", "declared", "a day of", "Total Fire Ban",
                "in the", "whole State of Victoria">>
        declared ==
              <<"Today", "has been", "declared", "a day of", "Total Fire Ban">>
                  \o list
    IN  CASE ban.phrase = "none" -> <<>>
          [] ban.phrase = "no" -> no
          [] ban.phrase = "statewide" -> statewide
          [] ban.phrase = "declared" -> declared
          [] ban.phrase = "is" ->
                <<"Today", "is", "a day of", "Total Fire Ban">> \o list
          [] ban.phrase = "no_statewide" -> no \o statewide
          [] ban.phrase = "no_declared" -> no \o declared
          [] ban.phrase = "statewide_declared" -> statewide \o declared

RECURSIVE PairWords(_)
PairWords(pairs) ==
    IF pairs = <<>> THEN <<>>
    ELSE NameWords(pairs[1].name) \o <<":", pairs[1].rating>>
             \o PairWords(Tail(pairs))

\* The text of a fragment
Render(frag) == BanWords(frag.ban) \o PairWords(frag.pairs)

ParsePairs ==
    {Pair(n, r) : n \in {"North Central", "Central", "central", "Mallee"},
                  r \in {"HIGH", "LOW-MODERATE", "NO RATING"}}

ListedBans ==
    {[phrase |-> ph, prep |-> pr, listed |-> l, term |-> t] :
        ph \in {"declared", "is"}, pr \in {"in the", "for the"},
        l \in SeqsUpTo(FeedNames, MaxListed) \ {<<>>},
        t \in {"district(s)", "districts"}}

PlainBans ==
    {[NoBan EXCEPT !.phrase = ph] : ph \in {"no", "statewide", "declared", "is"}}

\* Declarations whose district list is not closed by a district word
UnterminatedBans ==
    {[phrase |-> ph, prep |-> pr, listed |-> l, term |-> ""] :
        ph \in {"declared", "is"}, pr \in {"in the", "for the"},
        l \in SeqsUpTo(FeedNames, MaxListed)}

\* Fragments with two of the wordings
MixedBans ==
    {[NoBan EXCEPT !.phrase = "no_statewide"]}
        \cup {[phrase |-> ph, prep |-> "in the", listed |-> <<n>>,
               term |-> "district(s)"] :
                  ph \in {"no_declared", "statewide_declared"}, n \in FeedNames}

ParseFragments ==
    {[ban |-> NoBan, pairs |-> ps] : ps \in SeqsUpTo(ParsePairs, MaxTextPairs)}
        \cup {[ban |-> b, pairs |-> ps] :
                  b \in ListedBans \cup PlainBans \cup UnterminatedBans
                           \cup MixedBans,
                  ps \in {<<>>, <<Pair("Central", "HIGH")>>}}

ParseCalls ==
    {[NoCall EXCEPT !.fn = "pending_parse", !.frag = f, !.words = Render(f),
                    !.district_name = n] :
        f \in ParseFragments, n \in FeedNames}

InitParse ==
    /\ InitCoordinator
    /\ host = NoHost
    /\ call \in ParseCalls

CallParse ==
    /\ call.fn = "pending_parse"
    /\ call' = [call EXCEPT !.fn = "parsed",
                            !.ret = parse_text(call.words, call.district_name)]
    /\ UNCHANGED ctrl

NextParse == CallParse

SpecParse == InitParse /\ [][NextParse]_vars

\* ------------------------------------------------------------------------
\* Properties
\* ------------------------------------------------------------------------
\* A refresh cycle that ran with a district tracked has ended
Completed == obs.tracked /\ obs.outcome \in {"returned", "raised"}
\* A refresh cycle that ran with a district tracked has started
Started == obs.tracked /\ obs.outcome # "none"

\* C1: after every completed cycle that ran with a district tracked,
\* fallback_active holds exactly when combined_fail_count has reached the
\* threshold, already at the end of the cycle of the third failure.
C1_FallbackIffThreshold ==
    Completed =>
        (fallback_active <=> combined_fail_count >= COMBINED_FAIL_THRESHOLD)

\* C2 as stated: in sustained fallback the combined fetch is attempted
\* exactly on every 10th cycle counted from the cycle that entered fallback.
C2_ProbeRelativeToEntry ==
    (Started /\ obs.start_fail >= COMBINED_FAIL_THRESHOLD) =>
        (obs.attempted <=>
            (cycle_count - entered_at) % COMBINED_RETRY_INTERVAL = 0)

\* C2 amended: in sustained fallback the combined fetch is attempted exactly
\* on the cycles whose cycle_count is a multiple of 10, wherever the third
\* failure happened.
C2_ProbeOnMultiplesOfInterval ==
    (Started /\ obs.start_fail >= COMBINED_FAIL_THRESHOLD) =>
        (obs.attempted <=> cycle_count % COMBINED_RETRY_INTERVAL = 0)

\* Combined failed in cycles 1, 2 and 3 and cycle 10 attempts it again
C2_Witness ==
    /\ Started
    /\ entered_at = 3
    /\ obs.start_fail = COMBINED_FAIL_THRESHOLD
    /\ cycle_count = 10
    /\ obs.attempted

\* C3: a cycle that starts below the threshold attempts the combined fetch
\* first and runs the individual fetch only after that attempt failed; a
\* cycle that starts at or above the threshold and is not a probe cycle
\* makes no combined attempt and runs the individual fetch directly.
C3_StrategyOrder ==
    Started =>
        /\ obs.start_fail < COMBINED_FAIL_THRESHOLD =>
              /\ obs.attempted
              /\ obs.individual # "none" <=> obs.combined = "failed"
              /\ Completed => obs.combined # "none"
        /\ (/\ obs.start_fail >= COMBINED_FAIL_THRESHOLD
            /\ cycle_count % COMBINED_RETRY_INTERVAL # 0) =>
              /\ ~obs.attempted
              /\ obs.combined = "none"
              /\ obs.individual # "none"

\* Combined failed in cycles 1, 2 and 3 and cycle 4 went to the individual
\* feeds without a combined attempt
C3_Witness ==
    /\ Completed
    /\ entered_at = 3
    /\ cycle_count = 4
    /\ ~obs.attempted
    /\ obs.combined = "none"
    /\ obs.individual = "ok"

\* C4: a cycle whose combined fetch succeeded ends with the failure count
\* at 0, fallback off, source "combined", no error, no failed district, and
\* without an individual fetch.
C4_CombinedSuccessResets ==
    obs.combined = "ok" =>
        /\ obs.outcome = "returned"
        /\ pc = "idle"
        /\ combined_fail_count = 0
        /\ fallback_active = FALSE
        /\ last_source = "combined"
        /\ last_error = NoError
        /\ failed_districts = {}
        /\ obs.individual = "none"

\* A recovery probe in sustained fallback succeeded
C4_Witness ==
    /\ obs.combined = "ok"
    /\ obs.start_fail >= COMBINED_FAIL_THRESHOLD
    /\ combined_fail_count = 0
    /\ ~fallback_active

\* C5: every completed cycle in which a fetch failed leaves last_error set
\* or failed_districts non-empty.
C5_FailureObservable ==
    (Completed /\ (obs.combined = "failed" \/ obs.ind_failed # {})) =>
        (last_error # NoError \/ failed_districts # {})

\* C6: the individual strategy raises exactly when every district failed;
\* otherwise the result holds the districts that succeeded and the failed
\* list the districts that failed, a partition of the set it was given.
C6_IndividualPartition ==
    call.fn = "individual" =>
        LET failed_in == {s \in call.slugs : call.resps[s].kind # "ok"}
        IN  /\ ~call.ri.ok <=> failed_in = call.slugs
            /\ call.ri.ok =>
                  /\ DOMAIN call.ri.result = call.slugs \ failed_in
                  /\ call.ri.errors = failed_in
                  /\ \A s \in DOMAIN call.ri.result :
                        call.ri.result[s].district_slug = s

\* Three districts, one failed and two succeeded
C6_Witness ==
    /\ call.fn = "individual"
    /\ call.slugs = Regions
    /\ call.ri.ok
    /\ Cardinality(call.ri.errors) = 1
    /\ Cardinality(DOMAIN call.ri.result) = 2

\* C7: when every individual fetch of a cycle failed, the cycle raises,
\* the cached data is left alone, last_error is the failure message and
\* failed_districts is the tracked set.
C7_TotalFailure ==
    [][(/\ pc = "await_individual"
        /\ pc' = "idle"
        /\ obs'.ind_failed = tasks) =>
            /\ obs'.outcome = "raised"
            /\ data' = data
            /\ last_error' =
                  ErrorMsg("All individual district feeds failed", tasks)
            /\ failed_districts' = district_slugs']_vars

\* Both tracked districts failed after a failed combined attempt
C7_Witness ==
    /\ obs.outcome = "raised"
    /\ obs.combined = "failed"
    /\ obs.ind_failed = EntryRegions
    /\ failed_districts = EntryRegions
    /\ last_error.kind = "All individual district feeds failed"

\* C8: a cycle whose individual fetch returned a snapshot ends with source
\* "individual", failed_districts the districts whose fetch failed, and
\* last_error set exactly when failed_districts is non-empty.
C8_IndividualOutcome ==
    obs.individual = "ok" =>
        /\ obs.outcome = "returned"
        /\ last_source = "individual"
        /\ failed_districts = obs.ind_failed
        /\ last_error # NoError <=> failed_districts # {}

\* One district failed and the other succeeded
C8_Witness ==
    /\ obs.individual = "ok"
    /\ Cardinality(obs.ind_failed) = 1
    /\ failed_districts = obs.ind_failed
    /\ last_error = ErrorMsg("Individual feeds failed for", obs.ind_failed)

\* The items of a document the feed parser is to keep
IsForecastEntry(item) ==
    /\ item.has_title
    /\ item.has_desc
    /\ item.title \in {"Today", "Tomorrow"}

Filtered == SelectSeq(call.resp.items, IsForecastEntry)

\* No forecast entry carries a rating pair naming a tracked district
NoPairForTracked ==
    \A i \in 1..Len(Filtered) :
        \A j \in 1..Len(Filtered[i].desc) :
            \A s \in call.slugs :
                Upper(Filtered[i].desc[j].name) # Upper(DISTRICT_FEED_NAMES[s])

\* C9: the combined strategy fails on a document whose forecast entries
\* carry no rating pair for any tracked district.
C9_NoTrackedPairFails ==
    (/\ call.fn = "combined"
     /\ call.slugs # {}
     /\ call.resp.kind = "ok"
     /\ NoPairForTracked) => ~call.rc.ok

\* C10: a successful combined fetch returns one snapshot per tracked
\* district, each with one forecast day per kept entry, in entry order,
\* labelled with the entry title, and never empty.
C10_CombinedResultShape ==
    (call.fn = "combined" /\ call.rc.ok) =>
        /\ DOMAIN call.rc.result = call.slugs
        /\ \A s \in call.slugs :
              LET forecasts == call.rc.result[s].forecasts
              IN  /\ Len(forecasts) = Len(Filtered)
                  /\ Len(forecasts) > 0
                  /\ \A i \in 1..Len(forecasts) :
                        forecasts[i].date_label = Filtered[i].title

\* All districts tracked, two kept entries with different labels
C10_Witness ==
    /\ call.fn = "combined"
    /\ call.rc.ok
    /\ call.slugs = Regions
    /\ Len(Filtered) = 2
    /\ Filtered[1].title = "Tomorrow"
    /\ Filtered[2].title = "Today"
    /\ call.rc.result["central"].forecasts[1].date_label = "Tomorrow"

\* C11: a cycle that ends in total failure leaves the cached result, and
\* so the snapshot every sensor reads, as the last successful cycle left it:
\* no step of a cycle changes the cache unless the cycle returns with it.
C11_FailureKeepsCache ==
    [][obs'.outcome # "returned" =>
          /\ data' = data
          /\ \A s \in Regions : get_district_data(s)' = get_district_data(s)]_vars

\* A cycle raised and both districts still have their earlier snapshot
C11_Witness ==
    /\ obs.outcome = "raised"
    /\ obs.ind_failed = EntryRegions
    /\ \A s \in EntryRegions : get_district_data(s).present

\* The snapshots a cycle can produce for a district
IndividualSnapshots(slug) ==
    {fetch_individual_feed(r, slug).value : r \in MainIndividualResponses(slug)}
CombinedResults(slugs) ==
    {fetch_combined_feed(r, slugs).result : r \in MainCombinedResponses}

\* C12: after a successful cycle the cache is the result of that cycle:
\* a combined result for the tracked districts, or the individual snapshots
\* of the districts that succeeded and nothing for those that failed.
C12_CacheIsCycleResult ==
    [][(obs.outcome = "running" /\ obs'.outcome = "returned") =>
          /\ data'.set
          /\ obs'.combined = "ok" =>
                /\ DOMAIN data'.map = district_slugs'
                /\ data'.map \in CombinedResults(district_slugs')
          /\ obs'.individual = "ok" =>
                /\ DOMAIN data'.map = tasks \ obs'.ind_failed
                /\ \A s \in DOMAIN data'.map :
                      data'.map[s] \in IndividualSnapshots(s)]_vars

\* A district that had a snapshot failed in a partially successful cycle
C12_Witness ==
    /\ obs.outcome = "returned"
    /\ obs.individual = "ok"
    /\ obs.ind_failed = {"central"}
    /\ ~get_district_data("central").present
    /\ get_district_data("north-central").present

\* C14: a refresh that runs while no district is tracked returns the empty
\* result and starts neither the combined nor an individual fetch.
C14_NoDistrictNoFetch ==
    [][(pc = "idle" /\ district_slugs = {} /\ district_slugs' = {}) =>
          /\ pc' = "idle"
          /\ cycle_count' = cycle_count
          /\ tasks' = tasks
          /\ obs' # obs =>
                /\ obs'.outcome = "returned"
                /\ obs'.combined = "none"
                /\ obs'.individual = "none"
                /\ data' = [set |-> TRUE, map |-> EmptyResult]]_vars

\* After earlier cycles every district was removed and a refresh returned {}
C14_Witness ==
    /\ obs.outcome = "returned"
    /\ ~obs.tracked
    /\ district_slugs = {}
    /\ cycle_count > 0
    /\ data = [set |-> TRUE, map |-> EmptyResult]

\* C18: the severities of the six ratings, in the order NO RATING,
\* LOW-MODERATE, MODERATE, HIGH, EXTREME, CATASTROPHIC, are strictly
\* increasing, and a parsed day whose rating is UNKNOWN has severity 0, a
\* value that no rating of the vocabulary has.
C18_UnknownSeverityDistinct ==
    call.fn = "parsed" =>
        /\ \A i, j \in 1..Len(FIRE_DANGER_RATINGS) :
              i < j => RATING_SEVERITY(FIRE_DANGER_RATINGS[i])
                          < RATING_SEVERITY(FIRE_DANGER_RATINGS[j])
        /\ call.ret.rating = "UNKNOWN" =>
              /\ call.ret.severity = 0
              /\ \A k \in 1..Len(FIRE_DANGER_RATINGS) :
                    RATING_SEVERITY(FIRE_DANGER_RATINGS[k]) # call.ret.severity

\* The rating the pairs of a fragment give a district: that of the first
\* pair naming it, else that of the first pair, else UNKNOWN
PairRating(pairs, district_name) ==
    LET naming == {i \in 1..Len(pairs) :
                      Upper(pairs[i].name) = Upper(district_name)}
    IN  IF naming # {}
            THEN Upper(pairs[CHOOSE i \in naming : \A j \in naming : i <= j].rating)
        ELSE IF pairs # <<>> THEN Upper(pairs[1].rating)
        ELSE "UNKNOWN"

\* C19: the rating extracted for a district from the text of a fragment is
\* that of the first pair naming the district (case-insensitively), else
\* that of the first pair, else UNKNOWN with severity 0; a fragment holding
\* "North Central: HIGH" and "Central: LOW-MODERATE", in either order, gives
\* LOW-MODERATE for Central and HIGH for North Central.
C19_RatingOfDistrict ==
    call.fn = "parsed" =>
        /\ call.ret.rating = PairRating(call.frag.pairs, call.district_name)
        /\ call.frag.pairs = <<>> =>
              (call.ret.rating = "UNKNOWN" /\ call.ret.severity = 0)
        /\ (/\ Len(call.frag.pairs) = 2
            /\ {call.frag.pairs[1], call.frag.pairs[2]} =
                   {Pair("North Central", "HIGH"), Pair("Central", "LOW-MODERATE")})
              => /\ call.district_name = "Central"
                      => call.ret.rating = "LOW-MODERATE"
                 /\ call.district_name = "North Central"
                      => call.ret.rating = "HIGH"

C19_Witness ==
    /\ call.fn = "parsed"
    /\ call.frag.pairs =
           <<Pair("North Central", "HIGH"), Pair("Central", "LOW-MODERATE")>>
    /\ call.district_name = "Central"
    /\ call.ret.rating = "LOW-MODERATE"

\* A ban declaration whose district list is opened and closed
LocatedList ==
    /\ call.frag.ban.phrase \in {"declared", "is"}
    /\ call.frag.ban.prep # "none"
    /\ call.frag.ban.term # ""

\* C20: for a ban declaration with a located district list, total_fire_ban
\* is true for a district exactly when its name is one of those listed; the
\* list "North Central and Mallee district(s)" gives true for North Central
\* and Mallee and false for Central.
C20_BanForListedOnly ==
    (call.fn = "parsed" /\ LocatedList) =>
        /\ call.ret.total_fire_ban <=>
              \E i \in 1..Len(call.frag.ban.listed) :
                  call.frag.ban.listed[i] = call.district_name
        /\ (/\ call.frag.ban.listed = <<"North Central", "Mallee">>
            /\ call.frag.ban.term = "district(s)")
              => (call.ret.total_fire_ban <=>
                      call.district_name \in {"North Central", "Mallee"})

C20_Witness ==
    /\ call.fn = "parsed"
    /\ LocatedList
    /\ call.frag.ban.listed = <<"North Central", "Mallee">>
    /\ call.frag.ban.term = "district(s)"
    /\ call.district_name = "Central"
    /\ ~call.ret.total_fire_ban

\* C16: after a cycle was cancelled while the combined request or the
\* individual requests were in flight, cycle_count, combined_fail_count,
\* fallback_active, last_source, last_error, failed_districts and the cache
\* are what they were before the cycle started.
C16_CancelLeavesState ==
    obs.outcome = "cancelled" => ControllerState = obs.before

\* Sustained fallback: the combined feed failed three times in a row or more
InFallback == combined_fail_count >= COMBINED_FAIL_THRESHOLD

\* C17: while cycles keep running with a district tracked, from a state of
\* sustained fallback the combined feed is attempted again within at most
\* 10 cycles, and once the combined feed succeeds from some cycle on the
\* coordinator comes back to fallback_active = FALSE and last_source =
\* "combined" by itself.
C17_SelfHealing ==
    /\ \A c \in 0..LiveFailUntil :
          (InFallback /\ cycle_count = c) ~>
              (/\ pc = "await_combined"
               /\ cycle_count > c
               /\ cycle_count <= c + COMBINED_RETRY_INTERVAL)
    /\ InFallback ~> (~fallback_active /\ last_source = "combined"
                          /\ combined_fail_count = 0)

\* A cycle that started in sustained fallback ended with the combined feed
C17_Witness ==
    /\ obs.outcome = "returned"
    /\ obs.start_fail >= COMBINED_FAIL_THRESHOLD
    /\ obs.combined = "ok"
    /\ ~fallback_active
    /\ last_source = "combined"
    /\ cycle_count = 2 * COMBINED_RETRY_INTERVAL

\* The entries whose async_setup_entry has registered a district and that
\* were not unloaded since
Registered == {e \in EntryIds : host.entries[e].setup /\ ~NotReady(e)}

MinInterval(es) ==
    CHOOSE i \in {host.entries[e].interval : e \in es} :
        \A e \in es : i <= host.entries[e].interval

\* C13: whenever an entry is registered, the update interval of the shared
\* coordinator is the shortest of the scan intervals of the registered
\* entries.
C13_IntervalIsMinimum ==
    Registered # {} => host.update_interval = MinInterval(Registered)

\* C15: at most one refresh cycle of the shared coordinator is in progress:
\* the cycle of a setup never overlaps the cycle of the timer or of another
\* setup.
C15_OneCycleAtATime ==
    Cardinality({t \in Tasks : InCycle(t)}) <= 1

\* The wordings a fragment holds
HasNegative ==
    call.frag.ban.phrase \in {"no", "no_statewide", "no_declared"}
HasStatewide ==
    call.frag.ban.phrase \in {"statewide", "no_statewide", "statewide_declared"}
HasDeclaration ==
    call.frag.ban.phrase \in
        {"declared", "is", "no_declared", "statewide_declared"}
Listed ==
    \E i \in 1..Len(call.frag.ban.listed) :
        call.frag.ban.listed[i] = call.district_name

\* C21: the ban flag follows a fixed precedence: the negative wording gives
\* false even with the statewide wording or a declaration; otherwise the
\* statewide wording gives true even if a declaration lists other districts
\* only; otherwise a declaration is decided by its district list; a
\* fragment with none of the wordings gives false.
C21_BanPrecedence ==
    call.fn = "parsed" =>
        /\ HasNegative => ~call.ret.total_fire_ban
        /\ (~HasNegative /\ HasStatewide) => call.ret.total_fire_ban
        /\ (/\ ~HasNegative
            /\ ~HasStatewide
            /\ HasDeclaration
            /\ call.frag.ban.prep # "none"
            /\ call.frag.ban.term # "")
              => (call.ret.total_fire_ban <=> Listed)
        /\ call.frag.ban.phrase = "none" => ~call.ret.total_fire_ban

\* The statewide wording with a declaration that lists Mallee only
C21_Witness ==
    /\ call.fn = "parsed"
    /\ call.frag.ban.phrase = "statewide_declared"
    /\ call.frag.ban.listed = <<"Mallee">>
    /\ call.district_name = "Central"
    /\ call.ret.total_fire_ban

\* C22: a declaration whose district list cannot be located, be it that no
\* list follows the declaration or that the districts after it are not
\* closed by a district word, gives total_fire_ban = TRUE for every
\* district.
C22_NoListMeansBan ==
    (/\ call.fn = "parsed"
     /\ call.frag.ban.phrase \in {"declared", "is"}
     /\ call.frag.ban.prep = "none" \/ call.frag.ban.term = "")
        => call.ret.total_fire_ban

\* The feed status as the three cases of the claim give it
StatusByCases(slug) ==
    IF \/ ~data.set
       \/ slug \notin DOMAIN data.map
       \/ data.map[slug].forecasts = <<>>
       \/ slug \in failed_districts
        THEN "failed"
    ELSE IF fallback_active \/ last_source = "individual" \/ failed_districts # {}
        THEN "degraded"
    ELSE "ok"

\* A step in which the cycle of the task in focus returns or raises
CycleEnds ==
    /\ pc \in {"await_combined", "await_individual"}
    /\ pc' = "idle"
    /\ host' = host
    /\ obs'.outcome \in {"returned", "raised"}

CombinedCycleEnds == CycleEnds /\ obs'.combined = "ok"

\* The individual fetches of the cycle returned with some district failed
PartialCycleEnds ==
    CycleEnds /\ obs'.individual = "ok" /\ obs'.ind_failed # {}

\* The feed status is by the three cases, and "ok" is the status after a
\* cycle that ended with the combined feed only
OkOnlyAfterCombined ==
    /\ \A s \in EntryRegions : native_value(s)' = StatusByCases(s)'
    /\ (CycleEnds /\ ~CombinedCycleEnds) =>
          \A s \in EntryRegions : native_value(s)' # "ok"
    /\ \A s \in EntryRegions :
          (native_value(s) # "ok" /\ native_value(s)' = "ok")
              => CombinedCycleEnds

\* C23 as stated: the feed status of a district is 'failed' without a
\* cached snapshot with forecasts or with the district in failed_districts,
\* else 'degraded' with fallback_active, last_source "individual" or some
\* failed district, else 'ok'; so 'ok' shows only while the last completed
\* cycle is a combined success, and after an individual cycle in which some
\* district failed every district that did not fail shows 'degraded'.
C23_FeedStatus ==
    [][/\ OkOnlyAfterCombined
       /\ PartialCycleEnds =>
             \A s \in tasks \ obs'.ind_failed : native_value(s)' = "degraded"]_vars

\* No async_setup_entry is suspended in its first refresh
NoSetupInFlight ==
    \A e \in EntryIds : host.entries[e].setup => (Loaded(e) \/ NotReady(e))

\* The districts of the entries whose setup went past the first refresh and
\* that were not unloaded since
LoadedDistricts == {EntryDistrict(e) : e \in {x \in EntryIds : Loaded(x)}}

\* C24: after any setups (each adds its district, then runs a first refresh
\* that may raise) and unloads, the tracked districts of the coordinator are
\* the districts of the entries whose setup completed and that were not
\* unloaded, so the district of a setup that failed in its first refresh is
\* not tracked, and the shared coordinator exists exactly while such an
\* entry remains.
C24_TrackedAreLoaded ==
    NoSetupInFlight =>
        /\ district_slugs = LoadedDistricts
        /\ host.coordinator <=> (LoadedDistricts # {})

====
